---- MODULE Spec2Model ----
(***************************************************************************)
(* stactools datacube: derivation of datacube dimensions, item geometry    *)
(* and item temporal extent from a multidimensional dataset                *)
(* (src/src/stactools/datacube/stac.py).                                   *)
(*                                                                         *)
(* Numbers.  A coordinate is an integer.  float64 arithmetic is modelled   *)
(* as binary floating point with Precision significant bits (float64 has   *)
(* 53) and round-half-to-even, so that the places where the code compares  *)
(* floats bit for bit or within a tolerance see rounded values.  Relative  *)
(* tolerances are rationals [n, d].  Timestamps and durations are whole    *)
(* seconds; an ISO string is a value of its own type that carries them.    *)
(***************************************************************************)
EXTENDS Integers, Naturals, Sequences, FiniteSets, TLC

VARIABLES
    inp,    \* SpecDim, SpecGeom: the arguments of the function under check
    out,    \* SpecDim, SpecGeom: what it returned
    files,  \* Spec: what the dataset reader finds behind each asset's href
    item,   \* Spec: the item's geometry, bbox, datetime, start and end
    cube,   \* Spec: the datacube fields of each asset
    last    \* Spec: the last call and how it ended

vars == <<inp, out, files, item, cube, last>>

(***************************************************************************)
(* Bounds of the model.                                                    *)
(***************************************************************************)
Precision == 4
MaxLen == 4

(***************************************************************************)
(* Python values.                                                          *)
(***************************************************************************)
\* a number, None or a string: ty is the Python type, v a number, s the
\* components of a duration string
PyNone == [ty |-> "NoneType", v |-> 0, s |-> <<>>]
PyFloat(x) == [ty |-> "float", v |-> x, s |-> <<>>]
NpScalar(dtype, x) == [ty |-> dtype, v |-> x, s |-> <<>>]
PyStr(x) == [ty |-> "str", v |-> x, s |-> <<>>]
DurationStr(parts) == [ty |-> "str", v |-> 0, s |-> parts]

\* a unit attribute is a sequence of space-separated words; no unit is None
NoUnit == <<>>

Abs(x) == IF x < 0 THEN -x ELSE x

RECURSIVE BitLen(_)
BitLen(a) == IF a = 0 THEN 0 ELSE 1 + BitLen(a \div 2)

\* n/d (d > 0) rounded to the nearest integer, ties to even
RoundHalfEven(n, d) ==
    LET q == n \div d
        r == n - q * d
    IN IF 2 * r < d THEN q
       ELSE IF 2 * r > d THEN q + 1
       ELSE IF q % 2 = 0 THEN q ELSE q + 1

\* the float nearest to n/d: Precision significant bits, ties to even
Fl(n, d) ==
    LET b == BitLen(Abs(n) \div d)
        g == IF b > Precision THEN 2 ^ (b - Precision) ELSE 1
    IN g * RoundHalfEven(n, d * g)

\* float(v) of an array element
ToFloat(x) == Fl(x, 1)

(***************************************************************************)
(* get_dimension_type                                                      *)
(***************************************************************************)
\* str.lower() on the dimension names of the model
Lower(name) ==
    CASE name = "LON" -> "lon"
      [] name = "Long" -> "long"
      [] name = "Longitude" -> "longitude"
      [] name = "Lat" -> "lat"
      [] name = "LATITUDE" -> "latitude"
      [] name = "Z" -> "z"
      [] name = "Elevation" -> "elevation"
      [] name = "Time" -> "time"
      [] name = "TIME" -> "time"
      [] OTHER -> name

is_horizontal_x_dimension_name(type_name) == type_name \in {"lon", "long", "longitude"}

is_horizontal_y_dimension_name(type_name) == type_name \in {"lat", "latitude"}

is_vertical_dimension_name(type_name) == type_name \in {"z", "elevation"}

is_temporal_dimension_name(type_name) == type_name = "time"

\* lines 58-73 with the name looked at before the type
get_dimension_type_NameFirst(dimension) ==
    IF is_horizontal_x_dimension_name(Lower(dimension.name)) THEN "HORIZONTAL_X"
    ELSE IF is_horizontal_y_dimension_name(Lower(dimension.name)) THEN "HORIZONTAL_Y"
    ELSE IF is_vertical_dimension_name(Lower(dimension.name)) THEN "VERTICAL"
    ELSE IF is_temporal_dimension_name(Lower(dimension.name)) THEN "TEMPORAL"
    ELSE IF dimension.type # "" THEN dimension.type
    ELSE "OTHER"

\* dimension.type is "" when the key is absent (or empty: both are falsy)
get_dimension_type(dimension) ==
    IF dimension.type # "" THEN dimension.type
    ELSE LET name == Lower(dimension.name)
         IN IF is_horizontal_x_dimension_name(name) THEN "HORIZONTAL_X"
            ELSE IF is_horizontal_y_dimension_name(name) THEN "HORIZONTAL_Y"
            ELSE IF is_vertical_dimension_name(name) THEN "VERTICAL"
            ELSE IF is_temporal_dimension_name(name) THEN "TEMPORAL"
            ELSE "OTHER"

(***************************************************************************)
(* get_time_offset_and_step                                                *)
(***************************************************************************)
\* dateutil's parse on the epochs of the model: seconds, or -1 for a ParserError
parse_datetime(words) ==
    IF Len(words) # 1 THEN -1
    ELSE CASE words[1] = "1970-01-01" -> 0
           [] words[1] = "1970-01-08" -> 604800
           [] OTHER -> -1

\* timedelta(**{word: 1}) in seconds, or 0 for the TypeError of an unknown keyword
timedelta(word) ==
    CASE word = "weeks" -> 604800
      [] word = "days" -> 86400
      [] word = "hours" -> 3600
      [] word = "minutes" -> 60
      [] word = "seconds" -> 1
      [] OTHER -> 0

\* UNIT_RE = (\w+) since (.*), matched at the start of the unit
UNIT_RE(unit) == Len(unit) >= 2 /\ unit[2] = "since"

get_time_offset_and_step(unit) ==
    IF unit = NoUnit THEN [raised |-> "TypeError", offset |-> 0, step |-> 0]
    ELSE IF ~UNIT_RE(unit) THEN [raised |-> "ValueError", offset |-> 0, step |-> 0]
    ELSE LET offset == parse_datetime(SubSeq(unit, 3, Len(unit)))
             step == timedelta(unit[1])
         IN IF offset < 0 THEN [raised |-> "ParserError", offset |-> 0, step |-> 0]
            ELSE IF step = 0 THEN [raised |-> "TypeError", offset |-> 0, step |-> 0]
            ELSE [raised |-> "", offset |-> offset, step |-> step]

(***************************************************************************)
(* iso_duration                                                            *)
(***************************************************************************)
WEEK == 604800
DAY == 86400
HOUR == 3600
MINUTE == 60

\* lines 110-113 without the test of the value
Component_KeepZero(value, name) == <<[n |-> value, u |-> name]>>

\* one "<value><name>" component, nothing when the value is 0
Component(value, name) == IF value # 0 THEN <<[n |-> value, u |-> name]>> ELSE <<>>

iso_duration(td) ==
    LET w == td \div WEEK
        s1 == td - w * WEEK
        d == s1 \div DAY
        s2 == s1 - d * DAY
        h == s2 \div HOUR
        s3 == s2 - h * HOUR
        m == s3 \div MINUTE
        seconds == s3 - m * MINUTE
        date_part == Component(w, "W") \o Component(d, "D")
        time_part == Component(h, "H") \o Component(m, "M") \o Component(seconds, "S")
        P == <<[n |-> 0, u |-> "P"]>>
        T == <<[n |-> 0, u |-> "T"]>>
    IN IF time_part # <<>> THEN P \o date_part \o T \o time_part
       ELSE IF date_part # <<>> THEN P \o date_part
       ELSE P \o T \o <<[n |-> 0, u |-> "S"]>>

(***************************************************************************)
(* read_dimensions_and_variables: one dimension                            *)
(***************************************************************************)
RECURSIVE arange(_)
arange(size) == IF size <= 0 THEN <<>> ELSE Append(arange(size - 1), size - 1)

\* the coordinate array of a dimension and its numpy dtype
CoordinateData(dim) == IF dim.indexing_variable THEN dim.data ELSE arange(dim.size)

CoordinateDtype(dim) == IF dim.indexing_variable THEN dim.dtype ELSE "int64"

\* a - b in the array's dtype
Minus(dtype, a, b) == IF dtype = "float64" THEN Fl(a - b, 1) ELSE a - b

\* np.diff
diff(data, dtype) == [i \in 1..(IF Len(data) = 0 THEN 0 ELSE Len(data) - 1) |->
                        Minus(dtype, data[i + 1], data[i])]

\* np.add.reduce in float64
RECURSIVE FloatSum(_, _)
FloatSum(xs, k) ==
    IF k = 1 THEN ToFloat(xs[1]) ELSE Fl(FloatSum(xs, k - 1) + ToFloat(xs[k]), 1)

\* np.mean
mean(xs) == Fl(FloatSum(xs, Len(xs)), Len(xs))

\* np.allclose(a, b, rtol): |a - b| <= atol + rtol * |b| for every element.
\* Both sides are compared as exact rationals; the differences are whole
\* numbers and atol = 1e-8 is less than one of them, so it decides nothing.
allclose(a, b, rtol) ==
    \A i \in 1..Len(a) : Abs(Fl(ToFloat(a[i]) - b, 1)) * rtol.d <= rtol.n * Abs(b)

float_values(data) == [i \in 1..Len(data) |-> PyFloat(ToFloat(data[i]))]

\* lines 172-190 with the step of line 180 divided by len(data) - 1
Sampling_CountMinusOne(data, dtype, rtol) ==
    LET df == diff(data, dtype)
    IN IF Len(df) > 1
       THEN LET evenly_spaced == allclose(df, mean(df), rtol)
                step == IF \A i \in 1..Len(df) : df[i] = df[1]
                        THEN NpScalar(dtype, df[1])
                        ELSE IF evenly_spaced
                        THEN PyFloat(Fl(Minus(dtype, data[Len(data)], data[1]),
                                        Len(data) - 1))
                        ELSE PyNone
            IN [step |-> step,
                values |-> IF ~evenly_spaced THEN float_values(data) ELSE <<>>]
       ELSE [step |-> PyNone, values |-> float_values(data)]

\* lines 172-190: step and values of a coordinate sample
Sampling(data, dtype, rtol) ==
    LET df == diff(data, dtype)
    IN IF Len(df) > 1
       THEN LET evenly_spaced == allclose(df, mean(df), rtol)
                step == IF \A i \in 1..Len(df) : df[i] = df[1]
                        THEN NpScalar(dtype, df[1])
                        ELSE IF evenly_spaced
                        THEN PyFloat(Fl(Minus(dtype, data[Len(data)], data[1]), Len(data)))
                        ELSE PyNone
            IN [step |-> step,
                values |-> IF ~evenly_spaced THEN float_values(data) ELSE <<>>]
       ELSE [step |-> PyNone, values |-> float_values(data)]

\* isinstance(step, float): a Python float or a numpy float64
IsFloat(step) == step.ty \in {"float", "float64"}

\* datetime.isoformat() of offset + v * step_unit
isoformat(offset, step_unit, x) == PyStr(offset + x * step_unit)

NullDimension ==
    [dim_type |-> "", axis |-> "", extent |-> <<>>, step |-> PyNone, unit |-> NoUnit,
     values |-> <<>>]

Raise(error) == [raised |-> error, dimension |-> NullDimension]

Return(dimension) == [raised |-> "", dimension |-> dimension]

\* lines 236-239 with the upper bound at the last sample
TemporalExtent_NoAdvance(offset, step_unit, extent) ==
    <<isoformat(offset, step_unit, extent[1].v), isoformat(offset, step_unit, extent[2].v)>>

\* lines 236-239: the extent of a temporal dimension; the upper bound is one
\* step_unit after the last sample
TemporalExtent(offset, step_unit, extent) ==
    <<isoformat(offset, step_unit, extent[1].v),
      isoformat(offset + step_unit, step_unit, extent[2].v)>>

\* line 240
TemporalValues(offset, step_unit, values) ==
    [i \in 1..Len(values) |-> isoformat(offset, step_unit, values[i].v)]

\* lines 241-242
TemporalStep(step_unit, step) ==
    IF IsFloat(step) THEN DurationStr(iso_duration(step_unit * step.v)) ELSE step

\* line 192; data is not empty
Extent(data) == <<PyFloat(ToFloat(data[1])), PyFloat(ToFloat(data[Len(data)]))>>

\* lines 194-198
Unit(dim) == IF dim.indexing_variable THEN dim.unit ELSE NoUnit

\* lines 159-263: the dimension built for one entry of info["dimensions"]; an
\* absent key "values" and an absent or None unit are <<>>
BuildDimension(dim, rtol) ==
    LET typ == get_dimension_type(dim)
        data == CoordinateData(dim)
        sampling == Sampling(data, CoordinateDtype(dim), rtol)
        step == sampling.step
        values == sampling.values
        unit == Unit(dim)
    IN IF Len(data) = 0 THEN Raise("IndexError")
       ELSE IF typ \in {"HORIZONTAL_X", "HORIZONTAL_Y"}
       THEN Return([dim_type |-> "spatial",
                    axis |-> IF typ = "HORIZONTAL_X" THEN "x" ELSE "y",
                    extent |-> Extent(data), step |-> step, unit |-> unit,
                    values |-> values])
       ELSE IF typ = "VERTICAL"
       THEN Return([dim_type |-> "spatial", axis |-> "z",
                    extent |-> Extent(data), step |-> step, unit |-> unit,
                    values |-> values])
       ELSE IF typ = "TEMPORAL"
       THEN LET codec == get_time_offset_and_step(unit)
            IN IF codec.raised # "" THEN Raise(codec.raised)
               ELSE Return([dim_type |-> "temporal", axis |-> "",
                            extent |-> TemporalExtent(codec.offset, codec.step, Extent(data)),
                            step |-> TemporalStep(codec.step, step),
                            unit |-> NoUnit,
                            values |-> TemporalValues(codec.offset, codec.step, values)])
       ELSE Return([dim_type |-> "other", axis |-> "",
                    extent |-> Extent(data), step |-> step, unit |-> unit,
                    values |-> values])

(***************************************************************************)
(* _get_dimension and get_geometry.  A geometry is the rectangle           *)
(* shapely.geometry.box(x_low, y_low, x_high, y_high); its coordinates are *)
(* counted in halves of the coordinate unit, so that step / 2 is exact.    *)
(* The rectangle is in EPSG:4326 (no dimension of the model declares a     *)
(* reference system), where the reprojection to EPSG:4326 returns it.      *)
(***************************************************************************)
RECURSIVE SelectSeq2(_, _, _)
\* the dimensions of the given type (and axis, unless axis is ""), in order
SelectSeq2(dimensions, dim_type, axis) ==
    IF dimensions = <<>> THEN <<>>
    ELSE LET dim == Head(dimensions)
             rest == SelectSeq2(Tail(dimensions), dim_type, axis)
         IN IF dim.dim_type = dim_type /\ (axis = "" \/ dim.axis = axis)
            THEN <<dim>> \o rest ELSE rest

\* mutant: the last match instead of the first
GetDimension_Last(dimensions, dim_type, axis) ==
    LET matching == SelectSeq2(dimensions, dim_type, axis)
    IN IF matching = <<>> THEN <<>> ELSE <<matching[Len(matching)]>>

\* next(..., None): <<>> is None, <<dim>> the first match
GetDimension(dimensions, dim_type, axis) ==
    LET matching == SelectSeq2(dimensions, dim_type, axis)
    IN IF matching = <<>> THEN <<>> ELSE <<Head(matching)>>

Halves(x) == 2 * x

NoGeometry == [type |-> "None", box |-> <<>>]

Polygon(x_low, y_low, x_high, y_high) ==
    [type |-> "Polygon", box |-> <<x_low, y_low, x_high, y_high>>]

HasNone(extent) == \E i \in 1..Len(extent) : extent[i].ty = "NoneType"

\* mutant: the low end moved the wrong way
Low_Inward(dim) ==
    IF dim.step # PyNone THEN Halves(dim.extent[1].v) + dim.step.v
    ELSE Halves(dim.extent[1].v)

\* lines 340-345: "pixel is area"
Low(dim) ==
    IF dim.step # PyNone THEN Halves(dim.extent[1].v) - dim.step.v
    ELSE Halves(dim.extent[1].v)

High(dim) ==
    IF dim.step # PyNone THEN Halves(dim.extent[2].v) + dim.step.v
    ELSE Halves(dim.extent[2].v)

GeospatialKeys ==
    {"geospatial_lat_min", "geospatial_lat_max", "geospatial_lon_min", "geospatial_lon_max"}

get_geometry(dimensions, attributes) ==
    LET x_dim == GetDimension(dimensions, "spatial", "x")
        y_dim == GetDimension(dimensions, "spatial", "y")
    IN IF /\ x_dim # <<>>
          /\ y_dim # <<>>
          /\ ~HasNone(x_dim[1].extent)
          /\ ~HasNone(y_dim[1].extent)
       THEN Polygon(Low(x_dim[1]), Low(y_dim[1]), High(x_dim[1]), High(y_dim[1]))
       ELSE IF GeospatialKeys \subseteq DOMAIN attributes
       THEN Polygon(Halves(attributes["geospatial_lon_min"]),
                    Halves(attributes["geospatial_lat_min"]),
                    Halves(attributes["geospatial_lon_max"]),
                    Halves(attributes["geospatial_lat_max"]))
       ELSE NoGeometry

(***************************************************************************)
(* read_dimensions_and_variables: the whole dataset                        *)
(***************************************************************************)
\* dimensions[name] = dimension on a dict kept as a sequence of items
RECURSIVE DictSet(_, _, _)
DictSet(items, name, dimension) ==
    IF items = <<>> THEN <<[name |-> name, dimension |-> dimension]>>
    ELSE IF Head(items).name = name
    THEN <<[name |-> name, dimension |-> dimension]>> \o Tail(items)
    ELSE <<Head(items)>> \o DictSet(Tail(items), name, dimension)

\* dict.values()
DictValues(items) == [i \in 1..Len(items) |-> items[i].dimension]

\* lines 158-267: the loop over info["dimensions"]; it ends at the first
\* dimension that raises
RECURSIVE ReadDimensions(_, _, _)
\* line 267, after the dimension of Head(dims) was built
StoreDimension(built, dims, rtol, dimensions) ==
    IF built.raised # "" THEN [raised |-> built.raised, dimensions |-> <<>>]
    ELSE ReadDimensions(Tail(dims), rtol,
                        DictSet(dimensions, Head(dims).name, built.dimension))

ReadDimensions(dims, rtol, dimensions) ==
    IF dims = <<>> THEN [raised |-> "", dimensions |-> dimensions]
    ELSE StoreDimension(BuildDimension(Head(dims), rtol), dims, rtol, dimensions)

\* lines 269-280: one variable per array; the arrays of the model are the
\* indexing variables, each on its own dimension
RECURSIVE ReadVariables(_)
ReadVariables(dims) ==
    IF dims = <<>> THEN <<>>
    ELSE IF Head(dims).indexing_variable
    THEN <<[name |-> Head(dims).name, type |-> "data", unit |-> Head(dims).unit,
            dimensions |-> <<Head(dims).name>>]>> \o ReadVariables(Tail(dims))
    ELSE ReadVariables(Tail(dims))

SupportedSchemes == {"", "ftp", "http", "https", "s3"}

\* line 281, or the exception of the loop
ReturnRead(read, file) ==
    IF read.raised # ""
    THEN [raised |-> read.raised, dimensions |-> <<>>, variables |-> <<>>]
    ELSE [raised |-> "", dimensions |-> read.dimensions,
          variables |-> ReadVariables(file.dimensions)]

\* lines 137-281
read_dimensions_and_variables(file, rtol) ==
    IF file.scheme \notin SupportedSchemes
    THEN [raised |-> "ValueError", dimensions |-> <<>>, variables |-> <<>>]
    ELSE ReturnRead(ReadDimensions(file.dimensions, rtol, <<>>), file)

(***************************************************************************)
(* extend_asset and extend_item                                            *)
(***************************************************************************)
Datetime(seconds) == [ty |-> "datetime", v |-> seconds, s |-> <<>>]

\* parse_datetime of an ISO string the code wrote, None for a falsy entry
ParseOrNone(entry) == IF entry.ty = "str" THEN Datetime(entry.v) ELSE PyNone

\* list(shapely.geometry.shape(geometry).bounds)
Bounds(geometry) ==
    LET b == geometry.box
    IN <<IF b[1] < b[3] THEN b[1] ELSE b[3], IF b[2] < b[4] THEN b[2] ELSE b[4],
         IF b[1] < b[3] THEN b[3] ELSE b[1], IF b[2] < b[4] THEN b[4] ELSE b[2]>>

\* parse_datetime of info["time_coverage_start"] and info["time_coverage_end"]
InfoValue(key) == IF key = "time_coverage_start" THEN Datetime(1000) ELSE Datetime(2000)

\* lines 389-391
SetGeometry(it, geometry) ==
    IF geometry = NoGeometry THEN it
    ELSE [it EXCEPT !.geometry = geometry, !.bbox = Bounds(geometry)]

\* lines 388-391 without the test of line 387
WithGeometry_Always(it, dimensions, attributes) ==
    SetGeometry(it, get_geometry(dimensions, attributes))

\* lines 387-391
WithGeometry(it, dimensions, attributes) ==
    IF it.geometry # NoGeometry THEN it
    ELSE SetGeometry(it, get_geometry(dimensions, attributes))

\* lines 398-410; time_dimension is <<>> for None
SetTemporalExtent(it, time_dimension, keys) ==
    IF time_dimension # <<>> /\ time_dimension[1].extent # <<>>
    THEN [it EXCEPT !.start_datetime = ParseOrNone(time_dimension[1].extent[1]),
                    !.end_datetime = ParseOrNone(time_dimension[1].extent[2]),
                    !.datetime = PyNone]
    ELSE IF time_dimension # <<>> /\ time_dimension[1].values # <<>>
    THEN [it EXCEPT !.start_datetime = Datetime(time_dimension[1].values[1].v),
                    !.end_datetime =
                        Datetime(time_dimension[1].values[Len(time_dimension[1].values)].v),
                    !.datetime = PyNone]
    ELSE IF {"time_coverage_start", "time_coverage_end"} \subseteq keys
    THEN [it EXCEPT !.start_datetime = InfoValue("time_coverage_start"),
                    !.end_datetime = InfoValue("time_coverage_end"),
                    !.datetime = PyNone]
    ELSE it

\* lines 393-410
WithTemporalExtent(it, dimensions, keys) ==
    SetTemporalExtent(it, GetDimension(dimensions, "temporal", ""), keys)

\* lines 384-412 with the datacube attached before the dataset is read
ApplyAndDerive_AttachFirst(read, it, datacube, file) ==
    IF read.raised # ""
    THEN [raised |-> read.raised, item |-> it,
          datacube |-> [applied |-> TRUE, dimensions |-> <<>>, variables |-> <<>>]]
    ELSE [raised |-> "",
          item |-> WithTemporalExtent(
                       WithGeometry(it, DictValues(read.dimensions), file.attributes),
                       DictValues(read.dimensions), file.keys),
          datacube |-> [applied |-> TRUE, dimensions |-> read.dimensions,
                        variables |-> read.variables]]

\* lines 384-412, after the dataset was read
ApplyAndDerive(read, it, datacube, file) ==
    IF read.raised # ""
    THEN [raised |-> read.raised, item |-> it, datacube |-> datacube]
    ELSE [raised |-> "",
          item |-> WithTemporalExtent(
                       WithGeometry(it, DictValues(read.dimensions), file.attributes),
                       DictValues(read.dimensions), file.keys),
          datacube |-> [applied |-> TRUE, dimensions |-> read.dimensions,
                        variables |-> read.variables]]

\* lines 375-412: the item and the asset's datacube after the call
extend_asset(it, datacube, file, rtol) ==
    ApplyAndDerive(read_dimensions_and_variables(file, rtol), it, datacube, file)

\* lines 445-451; time_dimension is <<>> for None
FillFrom(it, time_dimension) ==
    IF time_dimension # <<>> /\ time_dimension[1].extent # <<>>
    THEN [it EXCEPT !.start_datetime = ParseOrNone(time_dimension[1].extent[1]),
                    !.end_datetime = ParseOrNone(time_dimension[1].extent[2])]
    ELSE IF time_dimension # <<>> /\ time_dimension[1].values # <<>>
    THEN [it EXCEPT !.start_datetime = Datetime(time_dimension[1].values[1].v),
                    !.end_datetime =
                        Datetime(time_dimension[1].values[Len(time_dimension[1].values)].v)]
    ELSE it

\* lines 436-451
FillTemporalExtent(it, dimensions) ==
    IF it.start_datetime = PyNone /\ it.end_datetime = PyNone /\ it.datetime = PyNone
    THEN FillFrom(it, GetDimension(dimensions, "temporal", ""))
    ELSE it

AssetNames == <<"data", "aux">>

\* lines 421-425: the first asset with the role "data", "" when there is none
DataAsset(it) ==
    LET with_role == SelectSeq(AssetNames, LAMBDA name : name \in it.data_roles)
    IN IF with_role = <<>> THEN "" ELSE Head(with_role)

\* lines 433-453, after extend_asset returned or raised
FinishItem(extended, name) ==
    IF extended.raised # ""
    THEN [raised |-> extended.raised, item |-> extended.item, asset |-> name,
          datacube |-> <<extended.datacube>>]
    ELSE [raised |-> "",
          item |-> FillTemporalExtent(extended.item,
                                      DictValues(extended.datacube.dimensions)),
          asset |-> name, datacube |-> <<extended.datacube>>]

\* lines 427-431; name is "" for None
ExtendNamed(it, cubes, assets, name, rtol) ==
    IF name = ""
    THEN [raised |-> "ValueError", item |-> it, asset |-> "", datacube |-> <<>>]
    ELSE FinishItem(extend_asset(it, cubes[name], assets[name], rtol), name)

\* lines 415-453; asset_name "" is None, assets the dataset of each asset
extend_item(it, cubes, assets, asset_name, rtol) ==
    ExtendNamed(it, cubes, assets,
                IF asset_name = "" THEN DataAsset(it) ELSE asset_name, rtol)

(***************************************************************************)
(* Inputs.                                                                 *)
(***************************************************************************)
\* coordinate values: 14 = 1110b is a float whose threefold sum is rounded
Coord == {-14, 0, 12, 14, 28}

Dtypes == {"int64", "float64"}

\* the default of rtol (lines 140, 377, 418), 1.0e-5, is far above the
\* roundoff of a float64; at Precision bits the like tolerance is 1/2
DefaultRtol == [n |-> 1, d |-> 2]

Rtols == {[n |-> 0, d |-> 1], DefaultRtol}

Units == {NoUnit, <<"K">>, <<"days", "since", "1970-01-01">>,
          <<"hours", "since", "1970-01-08">>, <<"months", "since", "1970-01-01">>}

Kinds == {[name |-> "LON", type |-> ""], [name |-> "Lat", type |-> ""],
          [name |-> "elevation", type |-> ""], [name |-> "time", type |-> ""],
          [name |-> "bnds", type |-> ""], [name |-> "bnds", type |-> "TEMPORAL"]}

Samples == UNION {[1..n -> Coord] : n \in 0..MaxLen}

\* a dimension with an indexing variable
IndexedDimensions ==
    {[name |-> k.name, type |-> k.type, size |-> Len(data), indexing_variable |-> TRUE,
      data |-> data, dtype |-> dtype, unit |-> unit] :
        k \in Kinds, data \in Samples, dtype \in Dtypes, unit \in Units}

\* a dimension without one: its coordinates are 0..size-1
PlainDimensions ==
    {[name |-> k.name, type |-> k.type, size |-> size, indexing_variable |-> FALSE,
      data |-> <<>>, dtype |-> "int64", unit |-> NoUnit] :
        k \in Kinds, size \in 0..MaxLen}

(***************************************************************************)
(* SpecDim: read_dimensions_and_variables on one dimension.                *)
(***************************************************************************)
Pending == [raised |-> "pending", dimension |-> NullDimension]

InitDim ==
    /\ inp \in [dim : IndexedDimensions \cup PlainDimensions, rtol : Rtols]
    /\ out = Pending
    /\ files = <<>>
    /\ item = <<>>
    /\ cube = <<>>
    /\ last = <<>>

ReadDimension ==
    /\ out = Pending
    /\ out' = BuildDimension(inp.dim, inp.rtol)
    /\ UNCHANGED <<inp, files, item, cube, last>>

NextDim == ReadDimension

SpecDim == InitDim /\ [][NextDim]_vars

(***************************************************************************)
(* SpecGeom: get_geometry on a datacube whose dimensions the caller made.  *)
(***************************************************************************)
MaxDims == 3

Extents == {<<PyFloat(-3), PyFloat(3)>>, <<PyFloat(3), PyFloat(-3)>>}

Steps == {PyNone, PyFloat(2), PyFloat(-2)}

SpatialDimension(axis, extent, step) ==
    [dim_type |-> "spatial", axis |-> axis, extent |-> extent, step |-> step,
     unit |-> NoUnit, values |-> <<>>]

GivenDimensions ==
    {SpatialDimension(axis, extent, step) :
        axis \in {"x", "y"}, extent \in Extents, step \in Steps}
    \cup {SpatialDimension(axis, <<PyNone, PyFloat(3)>>, PyNone) : axis \in {"x", "y"}}
    \cup {SpatialDimension("z", extent, PyFloat(2)) : extent \in Extents}
    \cup {[dim_type |-> "temporal", axis |-> "",
           extent |-> <<PyStr(0), PyStr(86400)>>, step |-> PyNone,
           unit |-> NoUnit, values |-> <<>>]}

AttributeValue(key) ==
    CASE key = "geospatial_lon_min" -> -5
      [] key = "geospatial_lon_max" -> 5
      [] key = "geospatial_lat_min" -> -2
      [] key = "geospatial_lat_max" -> 2
      [] key = "time_coverage_start" -> 1000
      [] key = "time_coverage_end" -> 2000
      [] OTHER -> 0

Attributes(keys) == [key \in keys |-> AttributeValue(key)]

AttributeSets ==
    {Attributes({}), Attributes(GeospatialKeys),
     Attributes(GeospatialKeys \ {"geospatial_lat_max"})}

PendingGeometry == [type |-> "pending", box |-> <<>>]

InitGeom ==
    /\ inp \in [dimensions : UNION {[1..n -> GivenDimensions] : n \in 0..MaxDims},
                attributes : AttributeSets]
    /\ out = PendingGeometry
    /\ files = <<>>
    /\ item = <<>>
    /\ cube = <<>>
    /\ last = <<>>

GetGeometry ==
    /\ out = PendingGeometry
    /\ out' = get_geometry(inp.dimensions, inp.attributes)
    /\ UNCHANGED <<inp, files, item, cube, last>>

NextGeom == GetGeometry

SpecGeom == InitGeom /\ [][NextGeom]_vars

(***************************************************************************)
(* SpecDuration: iso_duration on a whole number of seconds.                *)
(***************************************************************************)
MaxWeeks == 2

Durations ==
    {w * WEEK + d * DAY + h * HOUR + m * MINUTE + sec :
        w \in 0..MaxWeeks, d \in 0..6, h \in {0, 1, 12, 23}, m \in {0, 1, 30, 59},
        sec \in {0, 1, 30, 59}}

PendingDuration == [ty |-> "pending", v |-> 0, s |-> <<>>]

InitDuration ==
    /\ inp \in [td : Durations]
    /\ out = PendingDuration
    /\ files = <<>>
    /\ item = <<>>
    /\ cube = <<>>
    /\ last = <<>>

IsoDuration ==
    /\ out = PendingDuration
    /\ out' = DurationStr(iso_duration(inp.td))
    /\ UNCHANGED <<inp, files, item, cube, last>>

NextDuration == IsoDuration

SpecDuration == InitDuration /\ [][NextDuration]_vars

(***************************************************************************)
(* Spec: extend_asset and extend_item, in any order, on the two assets of  *)
(* one item.                                                               *)
(***************************************************************************)
MaxDataDims == 2

Indexed(name, type, dtype, data, unit) ==
    [name |-> name, type |-> type, size |-> Len(data), indexing_variable |-> TRUE,
     data |-> data, dtype |-> dtype, unit |-> unit]

\* the dimensions a dataset is made of: a regular longitude, a descending
\* latitude of two points, two time axes, and a time axis without an indexing
\* variable (so without a unit)
AssetDimensions ==
    {Indexed("lon", "", "float64", <<0, 14, 28>>, <<"degrees_east">>),
     Indexed("lat", "", "float64", <<12, 0>>, <<"degrees_north">>),
     Indexed("time", "", "int64", <<0, 14>>, <<"days", "since", "1970-01-01">>),
     Indexed("t", "TEMPORAL", "float64", <<12>>, <<"hours", "since", "1970-01-08">>),
     [name |-> "Time", type |-> "", size |-> 2, indexing_variable |-> FALSE,
      data |-> <<>>, dtype |-> "int64", unit |-> NoUnit]}

TimeCoverageKeys == {"time_coverage_start", "time_coverage_end"}

\* the rest of info: its top-level keys and its global attributes
\* (info["attributes"]), which is where a dataset's time_coverage_start and
\* time_coverage_end are
Infos ==
    {[keys |-> {}, attributes |-> Attributes({})],
     [keys |-> {"time_coverage_start"},
      attributes |-> Attributes(GeospatialKeys \cup TimeCoverageKeys)],
     [keys |-> {"time_coverage_start", "time_coverage_end"},
      attributes |-> Attributes(GeospatialKeys \ {"geospatial_lon_min"})]}

File(dims, info) ==
    [scheme |-> "https", dimensions |-> dims, keys |-> info.keys,
     attributes |-> info.attributes]

\* an href the code has no virtual file system for
Unsupported == [scheme |-> "gs", dimensions |-> <<>>, keys |-> {}, attributes |-> Attributes({})]

DataFiles ==
    {File(dims, info) :
        dims \in UNION {[1..n -> AssetDimensions] : n \in 0..MaxDataDims}, info \in Infos}
    \cup {Unsupported}

\* the second asset is a dataset of one dimension or none
AuxFiles ==
    {File(dims, info) :
        dims \in {<<>>} \cup {<<dim>> : dim \in AssetDimensions}, info \in Infos}
    \cup {Unsupported}

NotApplied == [applied |-> FALSE, dimensions |-> <<>>, variables |-> <<>>]

\* the item create_item makes, and an item loaded with a geometry and a
\* datetime whose assets have no role
Items ==
    {[geometry |-> NoGeometry, bbox |-> <<>>, datetime |-> PyNone,
      start_datetime |-> PyNone, end_datetime |-> PyNone, data_roles |-> {"data"}],
     [geometry |-> Polygon(0, 0, 2, 2), bbox |-> <<0, 0, 2, 2>>,
      datetime |-> Datetime(500),
      start_datetime |-> PyNone, end_datetime |-> PyNone, data_roles |-> {}]}

Idle == [op |-> "", asset |-> "", raised |-> ""]

Init ==
    /\ inp = <<>>
    /\ out = <<>>
    /\ files \in [data : DataFiles, aux : AuxFiles]
    /\ item \in Items
    /\ cube = [data |-> NotApplied, aux |-> NotApplied]
    /\ last = Idle

ExtendAsset ==
    \E name \in {"data", "aux"} :
        \E extended \in {extend_asset(item, cube[name], files[name], DefaultRtol)} :
           /\ item' = extended.item
           /\ cube' = [cube EXCEPT ![name] = extended.datacube]
           /\ last' = [op |-> "extend_asset", asset |-> name, raised |-> extended.raised]
           /\ UNCHANGED <<inp, out, files>>

ExtendItem ==
    \E asset_name \in {"", "data", "aux"} :
        \E extended \in {extend_item(item, cube, files, asset_name, DefaultRtol)} :
           /\ item' = extended.item
           /\ cube' = IF extended.datacube = <<>> THEN cube
                      ELSE [cube EXCEPT ![extended.asset] = extended.datacube[1]]
           /\ last' = [op |-> "extend_item", asset |-> extended.asset,
                       raised |-> extended.raised]
           /\ UNCHANGED <<inp, out, files>>

Next == ExtendAsset \/ ExtendItem

Spec == Init /\ [][Next]_vars

(***************************************************************************)
(* SpecType: get_dimension_type on a raw dimension, and the dimension      *)
(* read_dimensions_and_variables builds for it.                            *)
(***************************************************************************)
Names ==
    {"LON", "lon", "Long", "Longitude", "Lat", "lat", "LATITUDE", "Z", "z", "Elevation",
     "elevation", "TIME", "Time", "time", "bnds", "lonlat", "x", "t"}

\* the types GDAL gives a dimension, a type in lower case, and "" for none
Types == {"", "HORIZONTAL_X", "HORIZONTAL_Y", "VERTICAL", "TEMPORAL", "PARAMETRIC", "temporal"}

TypedDimensions ==
    {Indexed(name, type, "float64", <<0, 14>>, <<"days", "since", "1970-01-01">>) :
        name \in Names, type \in Types}

PendingType == [kind |-> "pending", built |-> Pending]

InitType ==
    /\ inp \in [dim : TypedDimensions]
    /\ out = PendingType
    /\ files = <<>>
    /\ item = <<>>
    /\ cube = <<>>
    /\ last = <<>>

GetDimensionType ==
    /\ out = PendingType
    /\ out' = [kind |-> get_dimension_type(inp.dim),
               built |-> BuildDimension(inp.dim, DefaultRtol)]
    /\ UNCHANGED <<inp, files, item, cube, last>>

NextType == GetDimensionType

SpecType == InitType /\ [][NextType]_vars

(***************************************************************************)
(* Claims on one built dimension (SpecDim).                                *)
(***************************************************************************)
Built == out.raised = ""

Data == CoordinateData(inp.dim)

Diffs == diff(Data, CoordinateDtype(inp.dim))

IdenticalDiffs == \A i \in 1..Len(Diffs) : Diffs[i] = Diffs[1]

NotTemporal == get_dimension_type(inp.dim) # "TEMPORAL"

\* C3: a dimension built from more than one sample carries exactly one of a
\* non-null step and a non-empty values list, for any rtol
C3_ExactlyOneOfStepAndValues ==
    (Built /\ Len(Data) > 1) =>
        ((out.dimension.step # PyNone) # (out.dimension.values # <<>>))

\* C4: a sample of at least three points with identical successive differences
\* gets step = diff[0] and no values, for every rtol
C4_IdenticalDiffsGiveStep ==
    (Built /\ NotTemporal /\ Len(Data) >= 3 /\ IdenticalDiffs) =>
        /\ out.dimension.step.ty # "NoneType"
        /\ out.dimension.step.v = Diffs[1]
        /\ out.dimension.values = <<>>

\* C5: a sample of fewer than three points (sizes 0, 1, 2) is built with
\* step None, values equal to the data and extent [first, last]
C5_FewerThanThreePoints ==
    (out # Pending /\ NotTemporal /\ Len(Data) < 3) =>
        /\ Built
        /\ out.dimension.step = PyNone
        /\ out.dimension.values = [i \in 1..Len(Data) |-> PyFloat(Data[i])]
        /\ Len(Data) > 0 =>
             out.dimension.extent = <<PyFloat(Data[1]), PyFloat(Data[Len(Data)])>>

\* the epoch and the unit duration, in seconds, of the units of the model
EpochOf(unit) == IF unit[3] = "1970-01-08" THEN 7 * 24 * 3600 ELSE 0

SecondsOf(unit) == IF unit[1] = "days" THEN 24 * 3600 ELSE 3600

BuiltTemporal == Built /\ out.dimension.dim_type = "temporal"

\* C6: a temporal dimension has extent [epoch + first*unit, epoch + last*unit
\* + unit], values converted as epoch + v*unit, and no unit
C6_TemporalExtentOneUnitPastLast ==
    BuiltTemporal =>
        LET epoch == EpochOf(inp.dim.unit)
            unit == SecondsOf(inp.dim.unit)
            dimension == out.dimension
        IN /\ dimension.extent[1] = PyStr(epoch + Data[1] * unit)
           /\ dimension.extent[2] = PyStr(epoch + Data[Len(Data)] * unit + unit)
           /\ Len(Data) = 1 => dimension.extent[2].v - dimension.extent[1].v = unit
           /\ \/ dimension.values = <<>>
              \/ dimension.values = [i \in 1..Len(Data) |-> PyStr(epoch + Data[i] * unit)]
           /\ dimension.unit = NoUnit

C6_Witness ==
    /\ BuiltTemporal
    /\ Len(Data) = 1
    /\ Data[1] # 0
    /\ out.dimension.values # <<>>
    /\ inp.dim.unit[1] = "hours"

\* C7: a temporal dimension whose sampling produced a numeric step stores the
\* duration string of unit * step, never a raw number
C7_TemporalStepIsDuration ==
    (BuiltTemporal /\ Len(Data) >= 3 /\ IdenticalDiffs) =>
        /\ out.dimension.step.ty = "str"
        /\ out.dimension.step.s = iso_duration(SecondsOf(inp.dim.unit) * Diffs[1])

(***************************************************************************)
(* Claims on get_geometry (SpecGeom).                                      *)
(***************************************************************************)
Min(a, b) == IF a < b THEN a ELSE b

Max(a, b) == IF a < b THEN b ELSE a

\* the places of the spatial dimensions of an axis among the given dimensions
Places(axis) ==
    {i \in 1..Len(inp.dimensions) :
        inp.dimensions[i].dim_type = "spatial" /\ inp.dimensions[i].axis = axis}

First(axis) == inp.dimensions[CHOOSE i \in Places(axis) : \A j \in Places(axis) : i <= j]

NoNull(dim) == dim.extent[1].ty # "NoneType" /\ dim.extent[2].ty # "NoneType"

FromDimensions ==
    /\ out # PendingGeometry
    /\ Places("x") # {} /\ Places("y") # {}
    /\ NoNull(First("x")) /\ NoNull(First("y"))

\* the bounds of an axis are the extent moved by half a step, or the extent
\* itself when the step is null (all in halves)
BoundsUsed(dim, low, high) ==
    IF dim.step.ty = "NoneType"
    THEN low = 2 * dim.extent[1].v /\ high = 2 * dim.extent[2].v
    ELSE low = 2 * dim.extent[1].v - dim.step.v /\ high = 2 * dim.extent[2].v + dim.step.v

\* the interval between low and high contains the extent
Contains(dim, low, high) ==
    /\ Min(low, high) <= 2 * Min(dim.extent[1].v, dim.extent[2].v)
    /\ Max(low, high) >= 2 * Max(dim.extent[1].v, dim.extent[2].v)

\* the step points from the low end of the extent to its high end
StepAlongExtent(dim) ==
    dim.step.ty = "NoneType" \/ dim.step.v * (dim.extent[2].v - dim.extent[1].v) >= 0

X(low, high, step) == SpatialDimension("x", <<PyFloat(low), PyFloat(high)>>, step)

Y(low, high, step) == SpatialDimension("y", <<PyFloat(low), PyFloat(high)>>, step)

\* in half degrees: X [-179.5, 179.5] step 1, Y [-89.5, 89.5] step 1 against
\* the irregular X [-180, 180], Y [-90, 90]
PaddedExample ==
    get_geometry(<<X(-359, 359, PyFloat(2)), Y(-179, 179, PyFloat(2))>>, Attributes({}))
        = get_geometry(<<X(-360, 360, PyNone), Y(-180, 180, PyNone)>>, Attributes({}))

Returned == last'.raised = ""

\* the dimensions of the asset the call processed, in the datacube's order
Processed == DictValues(cube'[last'.asset].dimensions)

Temporal == SelectSeq(Processed, LAMBDA d : d.dim_type = "temporal")

ExtentEstablished == item.start_datetime # PyNone \/ item.end_datetime # PyNone

ExtentKept ==
    /\ item'.start_datetime = item.start_datetime
    /\ item'.end_datetime = item.end_datetime

\* C1: a call of extend_asset or extend_item made while the item has a
\* non-null start_datetime or end_datetime leaves both unchanged
C1_NeverOverwriteTemporalExtent == [][ExtentEstablished => ExtentKept]_vars

GeometryKept == item'.geometry = item.geometry /\ item'.bbox = item.bbox

Derived == get_geometry(Processed, files[last'.asset].attributes)

BoundsOf(geometry) ==
    <<Min(geometry.box[1], geometry.box[3]), Min(geometry.box[2], geometry.box[4]),
      Max(geometry.box[1], geometry.box[3]), Max(geometry.box[2], geometry.box[4])>>

\* C2: a call that returns while the item has a geometry leaves geometry and
\* bbox unchanged; a call made while it has none sets geometry to what
\* get_geometry returns and bbox to its bounds, or leaves both untouched when
\* get_geometry returns nothing; a call that raises changes neither
C2_GeometryOnlyWhenAbsent ==
    [][IF ~Returned \/ item.geometry # NoGeometry THEN GeometryKept
       ELSE IF Derived = NoGeometry THEN GeometryKept
       ELSE item'.geometry = Derived /\ item'.bbox = BoundsOf(Derived)]_vars

\* both assets were processed, each yields a geometry of its own, and the
\* item has the geometry of the one processed first
C2_Witness ==
    /\ cube.data.applied /\ cube.aux.applied
    /\ last.asset = "aux" /\ last.raised = ""
    /\ get_geometry(DictValues(cube.aux.dimensions), files.aux.attributes) # NoGeometry
    /\ item.geometry = get_geometry(DictValues(cube.data.dimensions), files.data.attributes)
    /\ item.geometry # get_geometry(DictValues(cube.aux.dimensions), files.aux.attributes)
    /\ item.bbox = BoundsOf(item.geometry)
    /\ item.bbox # item.geometry.box

\* what the dataset information of the processed asset carries: the keys of
\* info and of its global attributes
Carried == files[last'.asset].keys \cup DOMAIN files[last'.asset].attributes

StartEnd(start, end) == item'.start_datetime = start /\ item'.end_datetime = end

\* C10: after extend_asset returns on an item without start and end, they
\* are the extent of the first temporal dimension if it has one, else its
\* first and last value if it has values, else the dataset information's
\* time_coverage_start and time_coverage_end if it carries both, else absent
C10_TemporalPriority ==
    [][last'.op = "extend_asset" /\ Returned /\ ~ExtentEstablished =>
         IF Temporal # <<>> /\ Temporal[1].extent # <<>>
         THEN StartEnd(ParseOrNone(Temporal[1].extent[1]),
                       ParseOrNone(Temporal[1].extent[2]))
         ELSE IF Temporal # <<>> /\ Temporal[1].values # <<>>
         THEN StartEnd(Datetime(Temporal[1].values[1].v),
                       Datetime(Temporal[1].values[Len(Temporal[1].values)].v))
         ELSE IF TimeCoverageKeys \subseteq Carried
         THEN StartEnd(Datetime(1000), Datetime(2000))
         ELSE StartEnd(PyNone, PyNone)]_vars

\* C10 with only the keys of info itself counted as carried
C10_PriorityOverInfoKeys ==
    [][last'.op = "extend_asset" /\ Returned /\ ~ExtentEstablished =>
         IF Temporal # <<>> /\ Temporal[1].extent # <<>>
         THEN StartEnd(ParseOrNone(Temporal[1].extent[1]),
                       ParseOrNone(Temporal[1].extent[2]))
         ELSE IF Temporal # <<>> /\ Temporal[1].values # <<>>
         THEN StartEnd(Datetime(Temporal[1].values[1].v),
                       Datetime(Temporal[1].values[Len(Temporal[1].values)].v))
         ELSE IF TimeCoverageKeys \subseteq files[last'.asset].keys
         THEN StartEnd(Datetime(1000), Datetime(2000))
         ELSE StartEnd(PyNone, PyNone)]_vars

(***************************************************************************)
(* Claims on iso_duration (SpecDuration).                                  *)
(***************************************************************************)
Encoded == out # PendingDuration

\* the places of a letter in the string
PlacesOf(letter) == {i \in 1..Len(out.s) : out.s[i].u = letter}

\* the number in front of a letter, 0 when the letter is not in the string
Number(letter) == IF PlacesOf(letter) = {} THEN 0 ELSE out.s[CHOOSE i \in PlacesOf(letter) : TRUE].n

Rank(letter) ==
    CASE letter = "P" -> 0 [] letter = "W" -> 1 [] letter = "D" -> 2 [] letter = "T" -> 3
      [] letter = "H" -> 4 [] letter = "M" -> 5 [] letter = "S" -> 6

Zero == DurationStr(<<[n |-> 0, u |-> "P"], [n |-> 0, u |-> "T"], [n |-> 0, u |-> "S"]>>)

\* C11: for a non-negative whole number of seconds the string is P, then the
\* non-zero weeks, days, then T and the non-zero hours, minutes, seconds, in
\* that order; the components re-sum to the total with days < 7, hours < 24,
\* minutes < 60, seconds < 60; T is there exactly when a time component is
\* non-zero; the zero duration is PT0S
C11_GreedyDecomposition ==
    Encoded =>
        IF inp.td = 0 THEN out = Zero
        ELSE /\ out.s[1].u = "P"
             /\ \A i \in 1..Len(out.s) : \A j \in 1..Len(out.s) :
                    i < j => Rank(out.s[i].u) < Rank(out.s[j].u)
             /\ \A i \in 1..Len(out.s) : out.s[i].u \notin {"P", "T"} => out.s[i].n > 0
             /\ Number("W") * 604800 + Number("D") * 86400 + Number("H") * 3600
                    + Number("M") * 60 + Number("S") = inp.td
             /\ Number("D") < 7 /\ Number("H") < 24 /\ Number("M") < 60 /\ Number("S") < 60
             /\ PlacesOf("T") # {} <=>
                    (Number("H") # 0 \/ Number("M") # 0 \/ Number("S") # 0)
             /\ out.s[Len(out.s)].u # "T"

\* P1W1DT1H1M1S
C11_Witness ==
    /\ inp.td = 694861
    /\ out = DurationStr(<<[n |-> 0, u |-> "P"], [n |-> 1, u |-> "W"], [n |-> 1, u |-> "D"],
                           [n |-> 0, u |-> "T"], [n |-> 1, u |-> "H"], [n |-> 1, u |-> "M"],
                           [n |-> 1, u |-> "S"]>>)

(***************************************************************************)
(* Claims on get_dimension_type (SpecType).                                *)
(***************************************************************************)
\* the kind the name alone decides
KindOfName(name) ==
    IF name \in {"LON", "lon", "Long", "Longitude"} THEN "HORIZONTAL_X"
    ELSE IF name \in {"Lat", "lat", "LATITUDE"} THEN "HORIZONTAL_Y"
    ELSE IF name \in {"Z", "z", "Elevation", "elevation"} THEN "VERTICAL"
    ELSE IF name \in {"TIME", "Time", "time"} THEN "TEMPORAL"
    ELSE "OTHER"

\* the variant a kind is built as: its type and its axis
VariantOf(kind) ==
    CASE kind = "HORIZONTAL_X" -> <<"spatial", "x">>
      [] kind = "HORIZONTAL_Y" -> <<"spatial", "y">>
      [] kind = "VERTICAL" -> <<"spatial", "z">>
      [] kind = "TEMPORAL" -> <<"temporal", "">>
      [] OTHER -> <<"other", "">>

\* C12: an explicit type is returned verbatim whatever the name; without
\* one the name decides, case-insensitively, and every other name is OTHER;
\* the dimension is built as the one variant of its kind
C12_DimensionTypeIsTotal ==
    out # PendingType =>
        /\ out.kind = IF inp.dim.type # "" THEN inp.dim.type ELSE KindOfName(inp.dim.name)
        /\ out.built.raised = ""
        /\ <<out.built.dimension.dim_type, out.built.dimension.axis>> = VariantOf(out.kind)

\* the explicit type wins over a name that says otherwise
C12_Witness ==
    /\ inp.dim.name = "Longitude" /\ inp.dim.type = "TEMPORAL"
    /\ out.kind = "TEMPORAL"
    /\ out.built.dimension.dim_type = "temporal"

(***************************************************************************)
(* Claims on dimensions without an indexing variable (SpecDim).            *)
(***************************************************************************)
\* C13: a dimension without an indexing variable, of any name, type and
\* size, is built without raising, from the coordinates 0..size-1 and with
\* no unit
C13_NoIndexingVariableNeverRaises ==
    (out # Pending /\ ~inp.dim.indexing_variable) =>
        /\ Built
        /\ out.dimension.unit = NoUnit
        /\ out.dimension.extent = <<PyFloat(0), PyFloat(inp.dim.size - 1)>>

\* C13 for the dimensions that are not temporal and have a coordinate
C13_SynthesizedWhenNotTemporal ==
    (out # Pending /\ ~inp.dim.indexing_variable /\ NotTemporal /\ inp.dim.size > 0) =>
        /\ Built
        /\ out.dimension.unit = NoUnit
        /\ out.dimension.extent = <<PyFloat(0), PyFloat(inp.dim.size - 1)>>

\* a temporal dimension without an indexing variable has no unit to parse
C13_TemporalRaises ==
    (out # Pending /\ ~inp.dim.indexing_variable /\ ~NotTemporal /\ inp.dim.size > 0) =>
        out.raised = "TypeError"

(***************************************************************************)
(* Claims on the tolerance path (SpecDim).                                 *)
(***************************************************************************)
\* every difference is within rtol of the mean of the differences
WithinTolerance ==
    \A i \in 1..Len(Diffs) :
        Abs(Diffs[i] - mean(Diffs)) * inp.rtol.d <= inp.rtol.n * Abs(mean(Diffs))

\* (data[-1] - data[0]) / len(data) as a float
OverCount == Fl(Minus(CoordinateDtype(inp.dim), Data[Len(Data)], Data[1]), Len(Data))

\* C14: a sample of at least three points whose differences are not all
\* identical has step (data[-1] - data[0]) / len(data) and no values when
\* every difference is within rtol of their mean, and step None and values
\* equal to the data when some difference is not
C14_ToleranceStepOverCount ==
    (Built /\ NotTemporal /\ Len(Data) >= 3 /\ ~IdenticalDiffs) =>
        IF WithinTolerance
        THEN /\ out.dimension.step = PyFloat(OverCount)
             /\ out.dimension.values = <<>>
        ELSE /\ out.dimension.step = PyNone
             /\ out.dimension.values = [i \in 1..Len(Data) |-> PyFloat(Data[i])]

\* 0, 12, 28: differences 12 and 16 around their mean 14; 28 / 3 is 9 to
\* the nearest whole number, 28 / 2 is 14
C14_Witness ==
    /\ Built /\ NotTemporal
    /\ Data = <<0, 12, 28>>
    /\ inp.rtol = DefaultRtol
    /\ out.dimension.step = PyFloat(9)
    /\ out.dimension.values = <<>>

(***************************************************************************)
(* Claims on a call that raises (Spec).                                    *)
(***************************************************************************)
\* C15: a call of extend_asset or extend_item that raises leaves the item's
\* geometry, bbox, datetime, start_datetime and end_datetime and every
\* asset's datacube dimensions and variables as they were
C15_FailureLeavesItemUntouched ==
    [][last'.raised # "" =>
         /\ item'.geometry = item.geometry /\ item'.bbox = item.bbox
         /\ item'.datetime = item.datetime
         /\ item'.start_datetime = item.start_datetime
         /\ item'.end_datetime = item.end_datetime
         /\ cube' = cube]_vars

\* the call on the first asset filled the item; the call on the second
\* raised on a time dimension without unit and attached nothing
C15_Witness ==
    /\ last.raised = "TypeError" /\ last.asset = "aux"
    /\ files.aux.dimensions # <<>>
    /\ cube.data.applied /\ cube.data.dimensions # <<>>
    /\ cube.aux = NotApplied
    /\ item.geometry # NoGeometry
    /\ item.start_datetime # PyNone

\* the second dimension of the dataset raised after the first was built, and
\* no datacube was attached
C15_PartialMapDropped ==
    /\ last.raised = "TypeError" /\ last.asset = "data"
    /\ Len(files.data.dimensions) = 2
    /\ files.data.dimensions[1].name = "lon"
    /\ cube.data = NotApplied

====
